---- MODULE Spec2Model ----
(***************************************************************************)
(* Stream ingestion and state reconciliation of OptionsFlowClient          *)
(* (src/unnamed/part_000): the ws.onmessage dispatcher and the React       *)
(* state it maintains (trades, prints, autoTrades, quotes, ulQuotes,       *)
(* conidMapping, stats).                                                   *)
(*                                                                         *)
(* JavaScript values are modelled as triples <<tag, num, den>>: a number   *)
(* is the fraction num/den in lowest terms (prices are whole ticks, the    *)
(* percentage is a true fraction), and undefined, null and NaN are their   *)
(* own tags, so that ??, truthiness and arithmetic on missing fields are   *)
(* computed as the code computes them.  An instrument id is a pair         *)
(* <<typeof, text>>: strict equality (!==) compares both parts, while a    *)
(* computed object key ([data.conid]) is the text alone.                   *)
(***************************************************************************)
EXTENDS Integers, Sequences, FiniteSets, TLC

VARIABLES trades, prints, autoTrades, quotes, ulQuotes, conidMapping, stats,
          clock, nmsgs, lastMsg,
          connected, sockets, wsRef, timers, mounted, mounts, via, thrown,
          queue, committed, pnl, priced, flagged

\* the session state the messages are merged into
dataVars == <<trades, prints, autoTrades, quotes, ulQuotes, conidMapping,
              stats>>

\* the connection manager: the connected flag, every WebSocket created so
\* far, wsRef.current (0 for null), the pending setTimeout calls, whether
\* the effect is mounted and how often it has been
connVars == <<connected, sockets, wsRef, timers, mounted, mounts>>

\* React's side of the state: the updaters that setState calls have
\* queued and that no render has run yet (queue), and the state as the
\* last render committed it (committed).  A specification that handles a
\* message and renders in one step leaves both alone.  pnl is a call of
\* calculatePnL by the view: its argument and, once it returned, its result.
\* priced records, for every instrument id, the latest LIVE_QUOTE delivered
\* for it that carried a last price.  flagged records the arrival indices
\* of the CALL/PUT messages delivered with a truthy isAutoTrade, the
\* newest first.
viewVars == <<queue, committed, pnl, priced, flagged>>

vars == <<trades, prints, autoTrades, quotes, ulQuotes, conidMapping, stats,
          clock, nmsgs, lastMsg,
          connected, sockets, wsRef, timers, mounted, mounts, via, thrown,
          queue, committed, pnl, priced, flagged>>

(* ------------------------------ bounds -------------------------------- *)
\* the first WarmTrades messages of the stream are CALL/PUT summaries and
\* the next WarmPrints are PRINTs (a seeded feed); after that MaxFree
\* messages of any kind arrive
WarmTrades == 200
WarmPrints == 200
MaxFree == 2
\* under SpecConn: at most MaxSockets WebSockets are created, the effect
\* is mounted at most MaxMounts times and MaxConnMsgs messages arrive
MaxSockets == 3
MaxMounts == 2
MaxConnMsgs == 1
\* messages of the session whose renders are followed one by one
MaxBatchMsgs == 3
\* the stream that outlives the trade ledger: auto-flagged trades, then
\* trades without the flag, then messages of any kind
TwinAutos == 60
TwinPlain == 200
MaxTwinFree == 2

(* ------------------------- program constants -------------------------- *)
TradesCap == 200
PrintsCap == 200
AutoTradesCap == 50
ReconnectDelay == 3000

(* --------------------------- JS values -------------------------------- *)
Abs(n) == IF n < 0 THEN -n ELSE n

RECURSIVE Gcd(_, _)
Gcd(a, b) == IF b = 0 THEN a ELSE Gcd(b, a % b)

\* the rational n/d (d # 0) as a JS number in lowest terms
Frac(n, d) ==
  LET g == Gcd(Abs(n), Abs(d))
      s == IF d < 0 THEN -1 ELSE 1
  IN  <<"number", (s * n) \div g, (s * d) \div g>>

Num(n) == <<"number", n, 1>>
Undefined == <<"undefined", 0, 1>>
Null == <<"null", 0, 1>>
NaN == <<"NaN", 0, 1>>
True == <<"boolean", 1, 1>>
False == <<"boolean", 0, 1>>
\* an object with the fields of the record r
Obj(r) == <<"object", r>>

IsNum(v) == v[1] = "number"

\* a ?? b
Nullish(v) == v[1] \in {"undefined", "null"}
Coalesce(a, b) == IF Nullish(a) THEN b ELSE a

\* the condition of  v ? x : y  and of  if (v)
Truthy(v) == CASE v[1] = "number" -> v[2] # 0
               [] v[1] = "boolean" -> v[2] # 0
               [] OTHER -> FALSE

\* a || b
OrElse(a, b) == IF Truthy(a) THEN a ELSE b

\* ToNumber: undefined -> NaN, null -> 0, false -> 0, true -> 1
ToNumber(v) == CASE v[1] = "number" -> v
                 [] v[1] = "null" -> Num(0)
                 [] v[1] = "boolean" -> Num(v[2])
                 [] OTHER -> NaN

\* a - b
Sub(a, b) ==
  LET x == ToNumber(a)
      y == ToNumber(b)
  IN  IF IsNum(x) /\ IsNum(y)
      THEN Frac(x[2] * y[3] - y[2] * x[3], x[3] * y[3])
      ELSE NaN

\* a * b
Mul(a, b) ==
  LET x == ToNumber(a)
      y == ToNumber(b)
  IN  IF IsNum(x) /\ IsNum(y)
      THEN Frac(x[2] * y[2], x[3] * y[3])
      ELSE NaN

\* a / b, for a divisor that is not zero (the only use is guarded by it)
Div(a, b) ==
  LET x == ToNumber(a)
      y == ToNumber(b)
  IN  IF IsNum(x) /\ IsNum(y) /\ y[2] # 0
      THEN Frac(x[2] * y[3], x[3] * y[2])
      ELSE NaN

(* ------------------------- instrument ids ----------------------------- *)
NumId(text) == <<"number", text>>
StrId(text) == <<"string", text>>
\* the property key of obj[conid]
Key(conid) == conid[2]

ConIds == {NumId("100"), StrId("100"), NumId("101")}

(* ------------------------------ state --------------------------------- *)
NoMsg == [type |-> "none", arr |-> 0]

\* no call of calculatePnL
NoCall ==
  [trade |-> NoMsg, returned |-> FALSE,
   result |-> [dollarPnL |-> Undefined, percentPnL |-> Undefined]]

\* the hooks before the first message: useState([]), useState({}),
\* useState(null)
Fresh ==
  [trades |-> <<>>, prints |-> <<>>, autoTrades |-> <<>>, quotes |-> <<>>,
   ulQuotes |-> <<>>, conidMapping |-> <<>>, stats |-> Null]

\* the component after construction, calculatePnL apart
Created ==
  /\ trades = <<>>
  /\ prints = <<>>
  /\ autoTrades = <<>>
  /\ quotes = <<>>
  /\ ulQuotes = <<>>
  /\ conidMapping = <<>>
  /\ stats = Null
  /\ clock = 0
  /\ nmsgs = 0
  /\ lastMsg = NoMsg
  /\ connected = FALSE
  /\ sockets = <<>>
  /\ wsRef = 0
  /\ timers = {}
  /\ mounted = FALSE
  /\ mounts = 0
  /\ via = 0
  /\ thrown = <<>>
  /\ queue = <<>>
  /\ committed = Fresh
  /\ priced = [c \in ConIds |-> NoMsg]
  /\ flagged = <<>>

Init == Created /\ pnl = NoCall

(* ------------------------- inbound messages --------------------------- *)
\* Every decoded message is a record; arr is its position in the stream
\* (the environment's numbering, carried along like any other field).
\* A field the message does not carry reads as Undefined.
TradeMsg(n, type, conid, optionPrice, isAutoTrade, timestamp, size, carried) ==
  [type |-> type, arr |-> n, conid |-> conid,
   underlyingConid |-> NumId("900"),
   optionPrice |-> optionPrice, size |-> Num(size),
   timestamp |-> Num(timestamp), isAutoTrade |-> isAutoTrade,
   receivedAt |-> IF carried THEN Num(7) ELSE Undefined,
   initialPrice |-> IF carried THEN Num(999) ELSE Undefined,
   currentPrice |-> IF carried THEN Num(998) ELSE Undefined,
   priceChange |-> IF carried THEN Num(5) ELSE Undefined,
   priceChangePct |-> IF carried THEN Num(6) ELSE Undefined]

PrintMsg(n, conid, tradePrice, timestamp) ==
  [type |-> "PRINT", arr |-> n, conid |-> conid,
   tradePrice |-> tradePrice, timestamp |-> Num(timestamp)]

QuoteMsg(n, type, conid, last, bid) ==
  [type |-> type, arr |-> n, conid |-> conid, last |-> last, bid |-> bid]

MappingMsg(n, conid, mapping) ==
  [type |-> "CONID_MAPPING", arr |-> n, conid |-> conid, mapping |-> mapping]

StatsMsg(n, s) == [type |-> "TRADING_STATS", arr |-> n, stats |-> s]

\* a message of a type the switch has no case for; "(no type)" stands for
\* a payload without a type field (data.type is undefined)
OtherMsg(n, type) == [type |-> type, arr |-> n]

Pick(seq, n) == seq[(n % Len(seq)) + 1]

\* the seeded part of the stream: message n for n <= WarmTrades + WarmPrints
WarmMsg(n) ==
  IF n <= WarmTrades
  THEN TradeMsg(n,
         IF n % 2 = 0 THEN "CALL" ELSE "PUT",
         Pick(<<NumId("100"), StrId("100"), NumId("101")>>, n),
         Pick(<<Num(150), Num(0), Num(275), Undefined, Null>>, n),
         Pick(<<True, Undefined, True, False>>, n),
         1000 + n - (IF n % 5 = 0 THEN 3 ELSE 0),
         1 + (n % 7),
         n % 11 = 0)
  ELSE PrintMsg(n,
         Pick(<<NumId("100"), NumId("101")>>, n),
         Num(100 + (n % 3)),
         1000 + n - (IF n % 5 = 0 THEN 3 ELSE 0))

\* the messages that may arrive once the seeded part is over
FreeMsgs(n) ==
  { TradeMsg(n, "CALL", NumId("100"), Num(150), True, 900, 10, TRUE),
    TradeMsg(n, "PUT", NumId("100"), Num(0), Undefined, 2000 + n, 1, FALSE),
    TradeMsg(n, "CALL", StrId("100"), Undefined, True, 2000 + n, 2, FALSE),
    TradeMsg(n, "PUT", NumId("101"), Num(200), False, 2000 + n, 3, FALSE),
    PrintMsg(n, NumId("100"), Num(101), 900),
    PrintMsg(n, NumId("101"), Num(102), 2000 + n),
    QuoteMsg(n, "LIVE_QUOTE", NumId("100"), Num(200), Num(195)),
    QuoteMsg(n, "LIVE_QUOTE", NumId("100"), Undefined, Undefined),
    QuoteMsg(n, "LIVE_QUOTE", StrId("100"), Num(300), Num(295)),
    QuoteMsg(n, "LIVE_QUOTE", NumId("101"), Null, Num(120)),
    QuoteMsg(n, "LIVE_QUOTE", NumId("101"), Num(0), Undefined),
    QuoteMsg(n, "UL_LIVE_QUOTE", NumId("100"), Num(5000), Num(4999)),
    QuoteMsg(n, "UL_LIVE_QUOTE", NumId("900"), Undefined, Num(4000)),
    MappingMsg(n, NumId("100"), [symbol |-> "SPY", right |-> "C"]),
    MappingMsg(n, StrId("100"), [symbol |-> "QQQ", right |-> "P"]),
    MappingMsg(n, NumId("101"), [symbol |-> "IWM", right |-> "C"]),
    StatsMsg(n, Obj([totalTrades |-> 1, isSimulation |-> TRUE])),
    StatsMsg(n, Obj([totalTrades |-> 2])),
    OtherMsg(n, "HEARTBEAT"),
    OtherMsg(n, "(no type)") }

\* a payload that never becomes a message object: text that is not JSON,
\* and the JSON text null (here type names the payload, not a data.type)
BadFrame(n, payload) == [type |-> payload, arr |-> n]

\* what the stream may deliver as its n-th message
Feed(n) ==
  IF n <= WarmTrades + WarmPrints THEN {WarmMsg(n)}
  ELSE IF n <= WarmTrades + WarmPrints + MaxFree THEN FreeMsgs(n)
  ELSE {}

\* the payloads the stream may deliver as its n-th that are no objects
BadFeed(n) ==
  IF WarmTrades + WarmPrints < n /\ n <= WarmTrades + WarmPrints + MaxFree
  THEN {BadFrame(n, "#undecodable"), BadFrame(n, "#null")}
  ELSE {}

\* by how much Date.now() has advanced when the n-th message is handled
Ticks(n) ==
  IF n <= WarmTrades + WarmPrints THEN {n % 2} ELSE {0, 1}

(* ------------------------- the handler's parts ------------------------ *)
Min(a, b) == IF a < b THEN a ELSE b

\* the push without its truncation: [record, ...prev]
PushNoSlice(record, prev, cap) == <<record>> \o prev

\* the push truncating at the wrong end: [record, ...prev].slice(-cap)
PushSliceTail(record, prev, cap) ==
  SubSeq(<<record>> \o prev, Len(prev) + 2 - Min(cap, Len(prev) + 1),
         Len(prev) + 1)

\* the push appending instead of prepending: [...prev, record].slice(0, cap)
PushAppend(record, prev, cap) ==
  SubSeq(prev \o <<record>>, 1, Min(cap, Len(prev) + 1))

\* [record, ...prev].slice(0, cap)
Push(record, prev, cap) ==
  SubSeq(<<record>> \o prev, 1, Min(cap, Len(prev) + 1))

\* enriched with the spread last, so that the message's own fields win:
\* { receivedAt: ..., initialPrice: ..., ..., ...data }
EnrichedSpreadLast(data, now) ==
  LET Own(v, computed) == IF v = Undefined THEN computed ELSE v
  IN  [data EXCEPT !.receivedAt = Own(data.receivedAt, Num(now)),
                   !.initialPrice = Own(data.initialPrice, data.optionPrice),
                   !.currentPrice = Own(data.currentPrice, data.optionPrice),
                   !.priceChange = Own(data.priceChange, Num(0)),
                   !.priceChangePct = Own(data.priceChangePct, Num(0))]

\* const enriched = { ...data, receivedAt: Date.now(), initialPrice: ... }
Enriched(data, now) ==
  [data EXCEPT !.receivedAt = Num(now),
               !.initialPrice = data.optionPrice,
               !.currentPrice = data.optionPrice,
               !.priceChange = Num(0),
               !.priceChangePct = Num(0)]

\* the callback measuring the change against the previous current price:
\* priceChange = last - t.currentPrice
UpdateTradeFromCurrent(t, data) ==
  IF t.conid # data.conid THEN t
  ELSE LET last == Coalesce(data.last, Coalesce(t.currentPrice, t.optionPrice))
           priceChange == Sub(last, t.currentPrice)
           priceChangePct ==
             IF Truthy(t.initialPrice)
             THEN Mul(Div(priceChange, t.initialPrice), Num(100))
             ELSE Num(0)
       IN  [t EXCEPT !.currentPrice = last,
                     !.priceChange = priceChange,
                     !.priceChangePct = priceChangePct]

\* the callback matching ids loosely (t.conid != data.conid), so that the
\* number 100 and the string "100" are the same instrument
UpdateTradeLooseId(t, data) ==
  IF Key(t.conid) # Key(data.conid) THEN t
  ELSE LET last == Coalesce(data.last, Coalesce(t.currentPrice, t.optionPrice))
           priceChange == Sub(last, t.initialPrice)
           priceChangePct ==
             IF Truthy(t.initialPrice)
             THEN Mul(Div(priceChange, t.initialPrice), Num(100))
             ELSE Num(0)
       IN  [t EXCEPT !.currentPrice = last,
                     !.priceChange = priceChange,
                     !.priceChangePct = priceChangePct]

\* the callback preferring the record's own price to the quote's:
\* last = t.currentPrice ?? data.last ?? t.optionPrice
UpdateTradeKeepCurrent(t, data) ==
  IF t.conid # data.conid THEN t
  ELSE LET last == Coalesce(t.currentPrice, Coalesce(data.last, t.optionPrice))
           priceChange == Sub(last, t.initialPrice)
           priceChangePct ==
             IF Truthy(t.initialPrice)
             THEN Mul(Div(priceChange, t.initialPrice), Num(100))
             ELSE Num(0)
       IN  [t EXCEPT !.currentPrice = last,
                     !.priceChange = priceChange,
                     !.priceChangePct = priceChangePct]

\* the callback of setTrades(prev => prev.map(...)) under LIVE_QUOTE
UpdateTrade(t, data) ==
  IF t.conid # data.conid THEN t
  ELSE LET last == Coalesce(data.last, Coalesce(t.currentPrice, t.optionPrice))
           priceChange == Sub(last, t.initialPrice)
           priceChangePct ==
             IF Truthy(t.initialPrice)
             THEN Mul(Div(priceChange, t.initialPrice), Num(100))
             ELSE Num(0)
       IN  [t EXCEPT !.currentPrice = last,
                     !.priceChange = priceChange,
                     !.priceChangePct = priceChangePct]

\* the mirror's callback dividing by the current price instead of the
\* initial one: (priceChange / t.currentPrice) * 100
UpdateAutoTradePctOfCurrent(t, data) ==
  IF t.conid # data.conid THEN t
  ELSE LET last == Coalesce(data.last, Coalesce(t.currentPrice, t.optionPrice))
           priceChange == Sub(last, t.initialPrice)
           priceChangePct ==
             IF Truthy(t.currentPrice)
             THEN Mul(Div(priceChange, t.currentPrice), Num(100))
             ELSE Num(0)
       IN  [t EXCEPT !.currentPrice = last,
                     !.priceChange = priceChange,
                     !.priceChangePct = priceChangePct]

\* the mirror's callback rebasing the record on the quote: it also sets
\* initialPrice: last
UpdateAutoTradeRebase(t, data) ==
  IF t.conid # data.conid THEN t
  ELSE LET last == Coalesce(data.last, Coalesce(t.currentPrice, t.optionPrice))
           priceChange == Sub(last, t.initialPrice)
           priceChangePct ==
             IF Truthy(t.initialPrice)
             THEN Mul(Div(priceChange, t.initialPrice), Num(100))
             ELSE Num(0)
       IN  [t EXCEPT !.initialPrice = last,
                     !.currentPrice = last,
                     !.priceChange = priceChange,
                     !.priceChangePct = priceChangePct]

\* the callback of setAutoTrades(prev => prev.map(...)) under LIVE_QUOTE
UpdateAutoTrade(t, data) ==
  IF t.conid # data.conid THEN t
  ELSE LET last == Coalesce(data.last, Coalesce(t.currentPrice, t.optionPrice))
           priceChange == Sub(last, t.initialPrice)
           priceChangePct ==
             IF Truthy(t.initialPrice)
             THEN Mul(Div(priceChange, t.initialPrice), Num(100))
             ELSE Num(0)
       IN  [t EXCEPT !.currentPrice = last,
                     !.priceChange = priceChange,
                     !.priceChangePct = priceChangePct]

MapTrades(prev, data) == [i \in 1..Len(prev) |-> UpdateTrade(prev[i], data)]

\* the mirror repricing its newest record only: prev.map((t, i) =>
\* i > 0 || t.conid !== data.conid ? t : { ...t, currentPrice: last, ... })
MapAutoTradesNewestOnly(prev, data) ==
  [i \in 1..Len(prev) |->
     IF i > 1 THEN prev[i] ELSE UpdateAutoTrade(prev[i], data)]

MapAutoTrades(prev, data) ==
  [i \in 1..Len(prev) |-> UpdateAutoTrade(prev[i], data)]

\* { ...prev, [data.conid]: value }
SetKey(prev, conid, value) ==
  [k \in (DOMAIN prev) \cup {Key(conid)} |->
     IF k = Key(conid) THEN value ELSE prev[k]]

(* ------------------------------ helpers ------------------------------- *)
\* the lookup with a default that lacks the type: { symbol: 'Unknown' }
getMappingBareDefault(conid) ==
  IF Key(conid) \in DOMAIN conidMapping
  THEN conidMapping[Key(conid)]
  ELSE [symbol |-> "Unknown"]

\* conidMapping[conid] || { symbol: 'Unknown', type: 'OPT' }
\* (every stored mapping is an object, hence truthy)
getMapping(conid) ==
  IF Key(conid) \in DOMAIN conidMapping
  THEN conidMapping[Key(conid)]
  ELSE [symbol |-> "Unknown", type |-> "OPT"]

\* calculatePnL with a multiplier of 1 where the trade has none:
\* trade.multiplier || 1
calculatePnLPerShare(trade) ==
  LET entry == Coalesce(trade.optionPrice, Coalesce(trade.initialPrice, Num(0)))
      current == Coalesce(trade.currentPrice, entry)
      contracts == OrElse(trade.size, Num(1))
      multiplier == OrElse(trade.multiplier, Num(1))
      priceDiff == Sub(current, entry)
  IN  IF ~Truthy(entry)
      THEN [dollarPnL |-> Num(0), percentPnL |-> Num(0)]
      ELSE [dollarPnL |-> Mul(Mul(priceDiff, contracts), multiplier),
            percentPnL |-> Mul(Div(priceDiff, entry), Num(100))]

\* const calculatePnL = (trade) => { ... }
calculatePnL(trade) ==
  LET entry == Coalesce(trade.optionPrice, Coalesce(trade.initialPrice, Num(0)))
      current == Coalesce(trade.currentPrice, entry)
      contracts == OrElse(trade.size, Num(1))
      multiplier == OrElse(trade.multiplier, Num(100))
      priceDiff == Sub(current, entry)
  IN  IF ~Truthy(entry)
      THEN [dollarPnL |-> Num(0), percentPnL |-> Num(0)]
      ELSE [dollarPnL |-> Mul(Mul(priceDiff, contracts), multiplier),
            percentPnL |-> Mul(Div(priceDiff, entry), Num(100))]

(* ------------------------- the connection ----------------------------- *)
\* A WebSocket: its readyState, the handler calls still due in the task
\* that closed it (the browser fires error, if any, and close back to back
\* in one task), whether it has been open, the socket whose close scheduled
\* its creation (0 when the effect created it) and the number of
\* subscription messages sent on it.
NewSocket(by) ==
  [readyState |-> "CONNECTING", events |-> <<>>, opened |-> FALSE,
   by |-> by, sent |-> 0]

Open == {c \in DOMAIN sockets : sockets[c].readyState = "OPEN"}

\* no handler call of a running task is still due
Idle == \A c \in DOMAIN sockets : sockets[c].events = <<>>

\* connectWebSocket: new WebSocket(WS_URL), handlers, wsRef.current = ws
Connect(by) ==
  /\ Len(sockets) < MaxSockets
  /\ sockets' = Append(sockets, NewSocket(by))
  /\ wsRef' = Len(sockets) + 1

\* useEffect body: connectWebSocket()
Mount ==
  /\ Idle
  /\ ~mounted
  /\ mounts < MaxMounts
  /\ Connect(0)
  /\ mounted' = TRUE
  /\ mounts' = mounts + 1
  /\ UNCHANGED <<dataVars, clock, nmsgs, lastMsg, connected, timers, via,
                 thrown, viewVars>>

\* ws.close(): a socket that is connecting or open starts closing; on a
\* closing or closed socket the call does nothing
CloseCall(c) ==
  [sockets EXCEPT ![c].readyState =
     IF @ \in {"CONNECTING", "OPEN"} THEN "CLOSING" ELSE @]

\* useEffect cleanup: if (wsRef.current) wsRef.current.close()
Cleanup ==
  /\ Idle
  /\ mounted
  /\ mounted' = FALSE
  /\ sockets' = IF wsRef # 0 THEN CloseCall(wsRef) ELSE sockets
  /\ UNCHANGED <<dataVars, clock, nmsgs, lastMsg, connected, wsRef, timers,
                 mounts, via, thrown, viewVars>>

\* an onopen that leaves the subscription to a later moment:
\* setConnected(true) only
OnOpenSilent ==
  \E c \in DOMAIN sockets :
    /\ Idle
    /\ sockets[c].readyState = "CONNECTING"
    /\ sockets' = [sockets EXCEPT ![c].readyState = "OPEN",
                                  ![c].opened = TRUE]
    /\ connected' = TRUE
    /\ UNCHANGED <<dataVars, clock, nmsgs, lastMsg, wsRef, timers, mounted,
                   mounts, via, thrown, viewVars>>

\* an onopen that starts the session afresh: setTrades([]), setPrints([])
OnOpenResets ==
  \E c \in DOMAIN sockets :
    /\ Idle
    /\ sockets[c].readyState = "CONNECTING"
    /\ sockets' = [sockets EXCEPT ![c].readyState = "OPEN",
                                  ![c].opened = TRUE,
                                  ![c].sent = @ + 1]
    /\ connected' = TRUE
    /\ trades' = <<>>
    /\ prints' = <<>>
    /\ UNCHANGED <<autoTrades, quotes, ulQuotes, conidMapping, stats, clock,
                   nmsgs, lastMsg, wsRef, timers, mounted, mounts, via,
                   thrown, viewVars>>

\* ws.onopen: setConnected(true); ws.send(subscribe)
OnOpen ==
  \E c \in DOMAIN sockets :
    /\ Idle
    /\ sockets[c].readyState = "CONNECTING"
    /\ sockets' = [sockets EXCEPT ![c].readyState = "OPEN",
                                  ![c].opened = TRUE,
                                  ![c].sent = @ + 1]
    /\ connected' = TRUE
    /\ UNCHANGED <<dataVars, clock, nmsgs, lastMsg, wsRef, timers, mounted,
                   mounts, via, thrown, viewVars>>

\* The connection of socket c is closed or fails: readyState becomes
\* CLOSED and the task fires error (always when the socket never opened,
\* possibly when it had) and then close.
ConnectionClosed ==
  \E c \in DOMAIN sockets :
    \E evs \in {<<"error", "close">>, <<"close">>} :
      /\ Idle
      /\ sockets[c].readyState # "CLOSED"
      /\ ~sockets[c].opened => evs = <<"error", "close">>
      /\ sockets' = [sockets EXCEPT ![c].readyState = "CLOSED",
                                    ![c].events = evs]
      /\ UNCHANGED <<dataVars, clock, nmsgs, lastMsg, connected, wsRef,
                     timers, mounted, mounts, via, thrown, viewVars>>

\* an onerror that also schedules the reconnection:
\* setConnected(false); setTimeout(connectWebSocket, 3000)
OnErrorSchedules ==
  \E c \in DOMAIN sockets :
    /\ sockets[c].events # <<>>
    /\ Head(sockets[c].events) = "error"
    /\ sockets' = [sockets EXCEPT ![c].events = Tail(@)]
    /\ connected' = FALSE
    /\ timers' = timers \cup {[by |-> c, delay |-> ReconnectDelay]}
    /\ UNCHANGED <<dataVars, clock, nmsgs, lastMsg, wsRef, mounted, mounts,
                   via, thrown, viewVars>>

\* ws.onerror: setConnected(false)
OnError ==
  \E c \in DOMAIN sockets :
    /\ sockets[c].events # <<>>
    /\ Head(sockets[c].events) = "error"
    /\ sockets' = [sockets EXCEPT ![c].events = Tail(@)]
    /\ connected' = FALSE
    /\ UNCHANGED <<dataVars, clock, nmsgs, lastMsg, wsRef, timers, mounted,
                   mounts, via, thrown, viewVars>>

\* an onclose that retries a mounted connection only, and gives up once a
\* retry has failed: if (!retried) setTimeout(connectWebSocket, 3000)
OnCloseGivesUp ==
  \E c \in DOMAIN sockets :
    /\ sockets[c].events # <<>>
    /\ Head(sockets[c].events) = "close"
    /\ sockets' = [sockets EXCEPT ![c].events = Tail(@)]
    /\ connected' = FALSE
    /\ timers' = IF sockets[c].by = 0
                 THEN timers \cup {[by |-> c, delay |-> ReconnectDelay]}
                 ELSE timers
    /\ UNCHANGED <<dataVars, clock, nmsgs, lastMsg, wsRef, mounted, mounts,
                   via, thrown, viewVars>>

\* ws.onclose: setConnected(false); setTimeout(connectWebSocket, 3000)
OnClose ==
  \E c \in DOMAIN sockets :
    /\ sockets[c].events # <<>>
    /\ Head(sockets[c].events) = "close"
    /\ sockets' = [sockets EXCEPT ![c].events = Tail(@)]
    /\ connected' = FALSE
    /\ timers' = timers \cup {[by |-> c, delay |-> ReconnectDelay]}
    /\ UNCHANGED <<dataVars, clock, nmsgs, lastMsg, wsRef, mounted, mounts,
                   via, thrown, viewVars>>

\* a pending setTimeout(connectWebSocket, 3000) fires
TimerFires ==
  \E t \in timers :
    /\ Idle
    /\ Connect(t.by)
    /\ timers' = timers \ {t}
    /\ UNCHANGED <<dataVars, clock, nmsgs, lastMsg, connected, mounted,
                   mounts, via, thrown, viewVars>>

\* The event loop runs every handler call that is due and every timer that
\* has expired: the calls of onerror and onclose, and connectWebSocket once
\* its 3000 ms are over.  Nothing is assumed of the network (OnOpen,
\* ConnectionClosed), of React (Mount, Cleanup) or of the server.
Scheduling ==
  /\ WF_vars(OnError)
  /\ WF_vars(OnClose)
  /\ WF_vars(TimerFires)

(* ------------------------ ws.onmessage, by case ----------------------- *)
\* the record of the option quotes delivered, data included
Priced(data) ==
  IF data.type = "LIVE_QUOTE" /\ ~Nullish(data.last)
  THEN [c \in (DOMAIN priced) \cup {data.conid} |->
          IF c = data.conid THEN data ELSE priced[c]]
  ELSE priced

\* the record of the auto-flagged trades delivered, data included
Flagged(data) ==
  IF data.type \in {"CALL", "PUT"}
  THEN IF Truthy(data.isAutoTrade) THEN <<data.arr>> \o flagged ELSE flagged
  ELSE flagged

\* a message event is delivered to the onmessage of an open socket
Delivered(data) ==
  /\ Idle
  /\ \E c \in Open : via' = c
  /\ nmsgs' = nmsgs + 1
  /\ lastMsg' = data
  /\ priced' = Priced(data)
  /\ flagged' = Flagged(data)
  /\ UNCHANGED <<connVars, pnl>>

\* the handler ran to its end
Received(data) ==
  /\ Delivered(data)
  /\ thrown' = thrown

\* the CONID_MAPPING case without the spread of the previous directory:
\* setConidMapping({ [data.conid]: data.mapping })
HandleConidMappingAlone(data) ==
  /\ data.type = "CONID_MAPPING"
  /\ conidMapping' = SetKey(<<>>, data.conid, data.mapping)
  /\ Received(data)
  /\ UNCHANGED <<trades, prints, autoTrades, quotes, ulQuotes, stats, clock>>

HandleConidMapping(data) ==
  /\ data.type = "CONID_MAPPING"
  /\ conidMapping' = SetKey(conidMapping, data.conid, data.mapping)
  /\ Received(data)
  /\ UNCHANGED <<trades, prints, autoTrades, quotes, ulQuotes, stats, clock>>

\* the CALL/PUT case pushing to the auto-trade ledger whatever the flag
HandleCallPutAlwaysAuto(data, dt) ==
  /\ data.type \in {"CALL", "PUT"}
  /\ clock' = clock + dt
  /\ LET enriched == Enriched(data, clock')
     IN  /\ trades' = Push(enriched, trades, TradesCap)
         /\ autoTrades' = Push(enriched, autoTrades, AutoTradesCap)
  /\ Received(data)
  /\ UNCHANGED <<prints, quotes, ulQuotes, conidMapping, stats>>

\* the CALL/PUT case starting the record at the price of the stored quote:
\* currentPrice: quotes[data.conid]?.last ?? data.optionPrice
HandleCallPutFromQuote(data, dt) ==
  /\ data.type \in {"CALL", "PUT"}
  /\ clock' = clock + dt
  /\ LET enriched ==
           [Enriched(data, clock') EXCEPT !.currentPrice =
              IF Key(data.conid) \in DOMAIN quotes
              THEN Coalesce(quotes[Key(data.conid)].last, data.optionPrice)
              ELSE data.optionPrice]
     IN  /\ trades' = Push(enriched, trades, TradesCap)
         /\ autoTrades' = IF Truthy(data.isAutoTrade)
                          THEN Push(enriched, autoTrades, AutoTradesCap)
                          ELSE autoTrades
  /\ Received(data)
  /\ UNCHANGED <<prints, quotes, ulQuotes, conidMapping, stats>>

HandleCallPut(data, dt) ==
  /\ data.type \in {"CALL", "PUT"}
  /\ clock' = clock + dt
  /\ LET enriched == Enriched(data, clock')
     IN  /\ trades' = Push(enriched, trades, TradesCap)
         /\ autoTrades' = IF Truthy(data.isAutoTrade)
                          THEN Push(enriched, autoTrades, AutoTradesCap)
                          ELSE autoTrades
  /\ Received(data)
  /\ UNCHANGED <<prints, quotes, ulQuotes, conidMapping, stats>>

HandlePrint(data) ==
  /\ data.type = "PRINT"
  /\ prints' = Push(data, prints, PrintsCap)
  /\ Received(data)
  /\ UNCHANGED <<trades, autoTrades, quotes, ulQuotes, conidMapping, stats,
                 clock>>

\* the LIVE_QUOTE case keeping the last known price in the overlay when the
\* new quote has none: { ...prev[data.conid], ...data } without its nulls
HandleLiveQuoteKeepLast(data) ==
  /\ data.type = "LIVE_QUOTE"
  /\ quotes' = SetKey(quotes, data.conid,
                 IF Nullish(data.last) /\ Key(data.conid) \in DOMAIN quotes
                 THEN [data EXCEPT !.last = quotes[Key(data.conid)].last]
                 ELSE data)
  /\ trades' = MapTrades(trades, data)
  /\ autoTrades' = MapAutoTrades(autoTrades, data)
  /\ Received(data)
  /\ UNCHANGED <<prints, ulQuotes, conidMapping, stats, clock>>

\* the LIVE_QUOTE case also marking the prints of the instrument to the
\* quote: setPrints(prev => prev.map(p => p.conid !== data.conid ? p :
\* { ...p, tradePrice: data.last ?? p.tradePrice }))
HandleLiveQuoteMarksPrints(data) ==
  /\ data.type = "LIVE_QUOTE"
  /\ quotes' = SetKey(quotes, data.conid, data)
  /\ trades' = MapTrades(trades, data)
  /\ autoTrades' = MapAutoTrades(autoTrades, data)
  /\ prints' = [i \in 1..Len(prints) |->
                  IF prints[i].conid # data.conid THEN prints[i]
                  ELSE [prints[i] EXCEPT !.tradePrice =
                          Coalesce(data.last, prints[i].tradePrice)]]
  /\ Received(data)
  /\ UNCHANGED <<ulQuotes, conidMapping, stats, clock>>

\* the LIVE_QUOTE case with the auto-trade ledger derived from the trade
\* ledger: setAutoTrades(trades.map(...).filter(t => t.isAutoTrade)
\* .slice(0, 50))
HandleLiveQuoteMirrorsTrades(data) ==
  /\ data.type = "LIVE_QUOTE"
  /\ quotes' = SetKey(quotes, data.conid, data)
  /\ trades' = MapTrades(trades, data)
  /\ autoTrades' =
       LET kept == SelectSeq(MapTrades(trades, data),
                             LAMBDA t : Truthy(t.isAutoTrade))
       IN  SubSeq(kept, 1, Min(AutoTradesCap, Len(kept)))
  /\ Received(data)
  /\ UNCHANGED <<prints, ulQuotes, conidMapping, stats, clock>>

HandleLiveQuote(data) ==
  /\ data.type = "LIVE_QUOTE"
  /\ quotes' = SetKey(quotes, data.conid, data)
  /\ trades' = MapTrades(trades, data)
  /\ autoTrades' = MapAutoTrades(autoTrades, data)
  /\ Received(data)
  /\ UNCHANGED <<prints, ulQuotes, conidMapping, stats, clock>>

\* the UL_LIVE_QUOTE case also repricing the trades of that id
HandleUlLiveQuoteReprices(data) ==
  /\ data.type = "UL_LIVE_QUOTE"
  /\ ulQuotes' = SetKey(ulQuotes, data.conid, data)
  /\ trades' = MapTrades(trades, data)
  /\ Received(data)
  /\ UNCHANGED <<prints, autoTrades, quotes, conidMapping, stats, clock>>

HandleUlLiveQuote(data) ==
  /\ data.type = "UL_LIVE_QUOTE"
  /\ ulQuotes' = SetKey(ulQuotes, data.conid, data)
  /\ Received(data)
  /\ UNCHANGED <<trades, prints, autoTrades, quotes, conidMapping, stats,
                 clock>>

\* the TRADING_STATS case merging into the previous snapshot:
\* setStats(prev => ({ ...prev, ...data.stats }))
HandleTradingStatsMerge(data) ==
  /\ data.type = "TRADING_STATS"
  /\ stats' = IF stats[1] = "object"
              THEN Obj([f \in (DOMAIN stats[2]) \cup (DOMAIN data.stats[2]) |->
                          IF f \in DOMAIN data.stats[2]
                          THEN data.stats[2][f] ELSE stats[2][f]])
              ELSE data.stats
  /\ Received(data)
  /\ UNCHANGED <<trades, prints, autoTrades, quotes, ulQuotes, conidMapping,
                 clock>>

HandleTradingStats(data) ==
  /\ data.type = "TRADING_STATS"
  /\ stats' = data.stats
  /\ Received(data)
  /\ UNCHANGED <<trades, prints, autoTrades, quotes, ulQuotes, conidMapping,
                 clock>>

KnownTypes == {"CONID_MAPPING", "CALL", "PUT", "PRINT", "LIVE_QUOTE",
               "UL_LIVE_QUOTE", "TRADING_STATS"}

\* a default arm that is reached by falling into the PRINT case
HandleOtherAsPrint(data) ==
  /\ data.type \notin KnownTypes
  /\ prints' = Push(data, prints, PrintsCap)
  /\ Received(data)
  /\ UNCHANGED <<trades, autoTrades, quotes, ulQuotes, conidMapping, stats,
                 clock>>

\* default: break
HandleOther(data) ==
  /\ data.type \notin KnownTypes
  /\ Received(data)
  /\ UNCHANGED <<trades, prints, autoTrades, quotes, ulQuotes, conidMapping,
                 stats, clock>>

\* a handler that closes its socket when the payload is not JSON:
\* try { ... } catch { ws.close() }
HandleUndecodableCloses(frame) ==
  /\ frame.type = "#undecodable"
  /\ Idle
  /\ \E c \in Open : via' = c /\ sockets' = CloseCall(c)
  /\ nmsgs' = nmsgs + 1
  /\ lastMsg' = frame
  /\ thrown' = thrown
  /\ UNCHANGED <<dataVars, clock, connected, wsRef, timers, mounted, mounts,
                 pnl, priced, flagged>>

\* const data = JSON.parse(event.data) on a payload that is not JSON:
\* JSON.parse throws a SyntaxError, which nothing in the handler catches
HandleUndecodable(frame) ==
  /\ frame.type = "#undecodable"
  /\ Delivered(frame)
  /\ thrown' = Append(thrown, "SyntaxError")
  /\ UNCHANGED <<dataVars, clock>>

\* the payload is the JSON text null: JSON.parse returns null and reading
\* data.type throws a TypeError, which nothing in the handler catches
HandleNullPayload(frame) ==
  /\ frame.type = "#null"
  /\ Delivered(frame)
  /\ thrown' = Append(thrown, "TypeError")
  /\ UNCHANGED <<dataVars, clock>>

(* --------------- the session whose connection stays up ---------------- *)
OnConidMapping ==
  /\ \E data \in Feed(nmsgs + 1) : HandleConidMapping(data)
  /\ UNCHANGED <<queue, committed>>

OnCallPut ==
  /\ \E data \in Feed(nmsgs + 1), dt \in Ticks(nmsgs + 1) :
       HandleCallPut(data, dt)
  /\ UNCHANGED <<queue, committed>>

OnPrint ==
  /\ \E data \in Feed(nmsgs + 1) : HandlePrint(data)
  /\ UNCHANGED <<queue, committed>>

OnLiveQuote ==
  /\ \E data \in Feed(nmsgs + 1) : HandleLiveQuote(data)
  /\ UNCHANGED <<queue, committed>>

OnUlLiveQuote ==
  /\ \E data \in Feed(nmsgs + 1) : HandleUlLiveQuote(data)
  /\ UNCHANGED <<queue, committed>>

OnTradingStats ==
  /\ \E data \in Feed(nmsgs + 1) : HandleTradingStats(data)
  /\ UNCHANGED <<queue, committed>>

OnOther ==
  /\ \E data \in Feed(nmsgs + 1) : HandleOther(data)
  /\ UNCHANGED <<queue, committed>>

OnUndecodable ==
  /\ \E frame \in BadFeed(nmsgs + 1) : HandleUndecodable(frame)
  /\ UNCHANGED <<queue, committed>>

OnNullPayload ==
  /\ \E frame \in BadFeed(nmsgs + 1) : HandleNullPayload(frame)
  /\ UNCHANGED <<queue, committed>>

Next ==
  \/ Mount
  \/ OnOpen
  \/ OnConidMapping
  \/ OnCallPut
  \/ OnPrint
  \/ OnLiveQuote
  \/ OnUlLiveQuote
  \/ OnTradingStats
  \/ OnOther
  \/ OnUndecodable
  \/ OnNullPayload

Spec == Init /\ [][Next]_vars

(* ---------------------- the view's calculatePnL ---------------------- *)
\* The trades the view hands to calculatePnL are ledger records, whose
\* initialPrice is their optionPrice (the CALL/PUT case sets it so and
\* nothing changes either).  Prices are in dollars here: 5/2 is 2.50.
PnLEntries == {Undefined, Null, Num(0), Num(2), Frac(5, 2)}
PnLCurrents == {Undefined, Null, Num(0), Num(1), Num(3)}
PnLSizes == {Undefined, Num(0), Num(1), Num(5)}
PnLMultipliers == {Undefined, Num(0), Num(50), Num(100)}

PnLTrades ==
  { [type |-> "CALL", arr |-> 1, optionPrice |-> e, initialPrice |-> e,
     currentPrice |-> c, size |-> s, multiplier |-> m] :
      e \in PnLEntries, c \in PnLCurrents, s \in PnLSizes,
      m \in PnLMultipliers }

\* the view is about to call calculatePnL(trade)
InitPnL ==
  /\ Created
  /\ \E t \in PnLTrades :
       pnl = [trade |-> t, returned |-> FALSE, result |-> NoCall.result]

\* const { dollarPnL, percentPnL } = calculatePnL(trade)
CalculatePnL ==
  /\ ~pnl.returned
  /\ pnl' = [pnl EXCEPT !.returned = TRUE, !.result = calculatePnL(pnl.trade)]
  /\ UNCHANGED <<dataVars, clock, nmsgs, lastMsg, connVars, via, thrown,
                 queue, committed, priced, flagged>>

NextPnL == CalculatePnL

SpecPnL == InitPnL /\ [][NextPnL]_vars

(* ------------- the session with its connection lifecycle -------------- *)
\* what the stream may deliver as its n-th message under SpecConn
ConnFeed(n) ==
  IF n <= MaxConnMsgs
  THEN { TradeMsg(n, "CALL", NumId("100"), Num(150), True, 2000 + n, 10, FALSE),
         PrintMsg(n, NumId("100"), Num(101), 2000 + n),
         QuoteMsg(n, "LIVE_QUOTE", NumId("100"), Num(200), Num(195)),
         QuoteMsg(n, "UL_LIVE_QUOTE", NumId("900"), Num(5000), Num(4999)),
         MappingMsg(n, NumId("100"), [symbol |-> "SPY", right |-> "C"]),
         StatsMsg(n, Obj([totalTrades |-> 1])),
         OtherMsg(n, "HEARTBEAT"),
         BadFrame(n, "#undecodable"),
         BadFrame(n, "#null") }
  ELSE {}

\* switch (data.type), after JSON.parse
Dispatch(data) ==
  \/ HandleConidMapping(data)
  \/ HandleCallPut(data, 1)
  \/ HandlePrint(data)
  \/ HandleLiveQuote(data)
  \/ HandleUlLiveQuote(data)
  \/ HandleTradingStats(data)
  \/ HandleOther(data)
  \/ HandleUndecodable(data)
  \/ HandleNullPayload(data)

\* ws.onmessage
OnMessage ==
  /\ \E data \in ConnFeed(nmsgs + 1) : Dispatch(data)
  /\ UNCHANGED <<queue, committed>>

NextConn ==
  \/ Mount
  \/ Cleanup
  \/ OnOpen
  \/ ConnectionClosed
  \/ OnError
  \/ OnClose
  \/ TimerFires
  \/ OnMessage

SpecConn == Init /\ [][NextConn]_vars

(* ------------- the session that outlives its trade ledger ------------ *)
\* what the stream may deliver as its n-th message under SpecTwin: TwinAutos
\* trades with the auto flag, then TwinPlain trades without it, which push
\* the flagged ones out of the trade ledger, then MaxTwinFree messages of
\* any kind
TwinFeed(n) ==
  IF n <= TwinAutos
  THEN { TradeMsg(n,
           IF n % 2 = 0 THEN "CALL" ELSE "PUT",
           Pick(<<NumId("100"), StrId("100"), NumId("101")>>, n),
           Pick(<<Num(150), Num(275)>>, n),
           True, 1000 + n, 1 + (n % 7), FALSE) }
  ELSE IF n <= TwinAutos + TwinPlain
  THEN { TradeMsg(n,
           IF n % 2 = 0 THEN "CALL" ELSE "PUT",
           Pick(<<NumId("100"), NumId("101")>>, n),
           Pick(<<Num(150), Num(275)>>, n),
           Pick(<<False, Undefined, Null, Num(0)>>, n),
           1000 + n, 1 + (n % 7), FALSE) }
  ELSE IF n <= TwinAutos + TwinPlain + MaxTwinFree
  THEN { TradeMsg(n, "CALL", NumId("100"), Num(150), True, 2000 + n, 10, FALSE),
         TradeMsg(n, "PUT", NumId("100"), Num(150), False, 2000 + n, 3, FALSE),
         PrintMsg(n, NumId("100"), Num(101), 2000 + n),
         QuoteMsg(n, "LIVE_QUOTE", NumId("100"), Num(200), Num(195)),
         QuoteMsg(n, "LIVE_QUOTE", StrId("100"), Num(300), Num(295)),
         QuoteMsg(n, "LIVE_QUOTE", NumId("101"), Undefined, Num(120)),
         QuoteMsg(n, "UL_LIVE_QUOTE", NumId("900"), Num(5000), Num(4999)),
         MappingMsg(n, NumId("100"), [symbol |-> "SPY", right |-> "C"]),
         StatsMsg(n, Obj([totalTrades |-> 1])),
         OtherMsg(n, "HEARTBEAT"),
         BadFrame(n, "#undecodable"),
         BadFrame(n, "#null") }
  ELSE {}

\* ws.onmessage
OnMessageTwin ==
  /\ \E data \in TwinFeed(nmsgs + 1) : Dispatch(data)
  /\ UNCHANGED <<queue, committed>>

NextTwin ==
  \/ Mount
  \/ OnOpen
  \/ OnMessageTwin

SpecTwin == Init /\ [][NextTwin]_vars

\* The connection manager on its own, under the event loop's scheduling:
\* no handler of a message reads or writes a variable of the connection
\* manager, so its lifecycle is followed without the stream.
NextLive ==
  \/ Mount
  \/ Cleanup
  \/ OnOpen
  \/ ConnectionClosed
  \/ OnError
  \/ OnClose
  \/ TimerFires

SpecLive == Init /\ [][NextLive]_vars /\ Scheduling

(* ------------- the session with React's update queues ---------------- *)
\* Every setX call of the handler queues an updater on the hook of X; the
\* next render runs the queue of each hook in the order of the calls and
\* commits the results.  Several messages may be handled between two
\* renders.
Hooks == {"trades", "prints", "autoTrades", "quotes", "ulQuotes",
          "conidMapping", "stats"}

Updater(hook, kind, arg, conid, cap) ==
  [hook |-> hook, kind |-> kind, arg |-> arg, conid |-> conid, cap |-> cap]

\* the setX calls of ws.onmessage for data, in the order of the code;
\* enriched is built when the handler runs (Date.now() is now)
Updaters(data, now) ==
  CASE data.type \in {"CALL", "PUT"} ->
         <<Updater("trades", "push", Enriched(data, now), data.conid,
                   TradesCap)>>
         \o (IF Truthy(data.isAutoTrade)
             THEN <<Updater("autoTrades", "push", Enriched(data, now),
                            data.conid, AutoTradesCap)>>
             ELSE <<>>)
    [] data.type = "PRINT" ->
         <<Updater("prints", "push", data, data.conid, PrintsCap)>>
    [] data.type = "LIVE_QUOTE" ->
         <<Updater("quotes", "setKey", data, data.conid, 0),
           Updater("trades", "mapTrades", data, data.conid, 0),
           Updater("autoTrades", "mapAutoTrades", data, data.conid, 0)>>
    [] data.type = "UL_LIVE_QUOTE" ->
         <<Updater("ulQuotes", "setKey", data, data.conid, 0)>>
    [] data.type = "CONID_MAPPING" ->
         <<Updater("conidMapping", "setKey", data.mapping, data.conid, 0)>>
    [] data.type = "TRADING_STATS" ->
         <<Updater("stats", "value", data.stats, NumId("0"), 0)>>
    [] OTHER -> <<>>

\* an updater that reads the committed state of its hook instead of the
\* state it is handed: setTrades([enriched, ...trades].slice(0, 200))
RunUpdaterStale(u, prev) ==
  CASE u.kind = "push" -> Push(u.arg, committed[u.hook], u.cap)
    [] u.kind = "mapTrades" -> MapTrades(prev, u.arg)
    [] u.kind = "mapAutoTrades" -> MapAutoTrades(prev, u.arg)
    [] u.kind = "setKey" -> SetKey(prev, u.conid, u.arg)
    [] u.kind = "value" -> u.arg

\* the updater u applied to the state prev of its hook
RunUpdater(u, prev) ==
  CASE u.kind = "push" -> Push(u.arg, prev, u.cap)
    [] u.kind = "mapTrades" -> MapTrades(prev, u.arg)
    [] u.kind = "mapAutoTrades" -> MapAutoTrades(prev, u.arg)
    [] u.kind = "setKey" -> SetKey(prev, u.conid, u.arg)
    [] u.kind = "value" -> u.arg

\* the queue q of one hook run on its state prev
RECURSIVE Reduce(_, _, _)
Reduce(hook, q, prev) ==
  IF q = <<>> THEN prev
  ELSE Reduce(hook, Tail(q),
              IF Head(q).hook = hook THEN RunUpdater(Head(q), prev)
              ELSE prev)

\* what the stream may deliver as its n-th message under SpecBatch
BatchFeed(n) ==
  IF n <= MaxBatchMsgs
  THEN { TradeMsg(n, "CALL", NumId("100"), Num(150), True, 2000 + n, 10, FALSE),
         TradeMsg(n, "PUT", NumId("100"), Num(120), False, 2000 + n, 2, FALSE),
         PrintMsg(n, NumId("100"), Num(101), 2000 + n),
         QuoteMsg(n, "LIVE_QUOTE", NumId("100"), Num(200), Num(195)),
         QuoteMsg(n, "LIVE_QUOTE", NumId("100"), Undefined, Num(190)),
         QuoteMsg(n, "UL_LIVE_QUOTE", NumId("900"), Num(5000), Num(4999)),
         MappingMsg(n, NumId("100"), [symbol |-> "SPY", right |-> "C"]),
         StatsMsg(n, Obj([totalTrades |-> n])),
         OtherMsg(n, "HEARTBEAT"),
         BadFrame(n, "#undecodable"),
         BadFrame(n, "#null") }
  ELSE {}

\* ws.onmessage: the handler runs, its setX calls are queued
OnMessageBatched ==
  /\ \E data \in BatchFeed(nmsgs + 1) :
       /\ Dispatch(data)
       /\ queue' = queue \o Updaters(data, clock')
  /\ committed' = committed

\* React renders: every hook's queue is run and the result committed
Render ==
  /\ queue # <<>>
  /\ committed' = [h \in Hooks |-> Reduce(h, queue, committed[h])]
  /\ queue' = <<>>
  /\ UNCHANGED <<dataVars, clock, nmsgs, lastMsg, connVars, via, thrown,
                 pnl, priced, flagged>>

\* In SpecBatch the variables trades, prints, ... hold the state that
\* handling each message in one step gives, as in the other
\* specifications; committed and queue hold what React has.
NextBatch ==
  \/ Mount
  \/ OnOpen
  \/ OnMessageBatched
  \/ Render

SpecBatch == Init /\ [][NextBatch]_vars

(* ------------------------------ claims -------------------------------- *)
IsStep == nmsgs' = nmsgs + 1
IsTradeStep == IsStep /\ lastMsg'.type \in {"CALL", "PUT"}
IsPrintStep == IsStep /\ lastMsg'.type = "PRINT"
IsLiveQuoteStep == IsStep /\ lastMsg'.type = "LIVE_QUOTE"

\* C1: whatever messages have arrived, the trade ledger holds at most 200
\* records, the print ledger at most 200 and the auto-trade ledger at most 50.
C1_BoundedLedgers ==
  /\ Len(trades) <= 200
  /\ Len(prints) <= 200
  /\ Len(autoTrades) <= 50

\* all three ledgers are full and more records have been pushed than a
\* ledger can hold (the oldest retained print is not the first print)
C1_Witness ==
  /\ Len(trades) = 200 /\ trades[200].arr > 1
  /\ Len(autoTrades) = 50 /\ autoTrades[50].arr > 1
  /\ Len(prints) = 200 /\ prints[200].arr > WarmTrades + 1
  /\ lastMsg.type = "PRINT"

\* new is old after one push of a record onto a ledger of capacity cap
\* that was full: same length, old records shifted by one, oldest gone
EvictedOne(old, new, cap) ==
  /\ Len(new) = cap
  /\ \A i \in 1..(cap - 1) : new[i + 1] = old[i]
  /\ \A i \in 1..cap : new[i].arr # old[cap].arr

\* C2: a push onto a ledger that holds exactly its capacity (200 trades,
\* 200 prints, 50 auto-trades) yields the new record followed by the
\* previous first capacity-1 records, unchanged and in order; only the
\* oldest record is gone.
C2_Eviction ==
  [][ /\ (IsPrintStep /\ Len(prints) = 200) =>
           (prints'[1] = lastMsg' /\ EvictedOne(prints, prints', 200))
      /\ (IsTradeStep /\ Len(trades) = 200) =>
           (trades'[1].arr = nmsgs' /\ EvictedOne(trades, trades', 200))
      /\ (IsTradeStep /\ Truthy(lastMsg'.isAutoTrade) /\ Len(autoTrades) = 50) =>
           (autoTrades'[1].arr = nmsgs'
            /\ EvictedOne(autoTrades, autoTrades', 50)) ]_vars

\* one more print than the ledger holds has arrived (the seeded prints and
\* one more): the ledger is full, the newest is in front and the first
\* print of the stream is gone; the trade ledgers have evicted as well
C2_Witness ==
  /\ lastMsg.type = "PRINT"
  /\ Len(prints) = 200
  /\ prints[1] = lastMsg
  /\ prints[2].arr = WarmTrades + WarmPrints
  /\ prints[200].arr = WarmTrades + 2
  /\ Len(trades) = 200 /\ trades[200].arr > 1
  /\ Len(autoTrades) = 50 /\ autoTrades[1].arr > WarmTrades

\* the records of a ledger are in strictly decreasing arrival order
NewestFirst(ledger) ==
  \A i \in 1..(Len(ledger) - 1) : ledger[i].arr > ledger[i + 1].arr

C3_Ordered ==
  /\ NewestFirst(trades)
  /\ NewestFirst(prints)
  /\ NewestFirst(autoTrades)
  /\ lastMsg.type = "PRINT" => prints[1].arr = nmsgs
  /\ lastMsg.type \in {"CALL", "PUT"} => trades[1].arr = nmsgs
  /\ (lastMsg.type \in {"CALL", "PUT"} /\ Truthy(lastMsg.isAutoTrade)) =>
        autoTrades[1].arr = nmsgs

SamePositions(old, new) ==
  /\ Len(new) = Len(old)
  /\ \A i \in 1..Len(old) : new[i].arr = old[i].arr

\* C3: every ledger lists its records in reverse arrival order (a later
\* arrival is at a smaller index, whatever the timestamps), the record just
\* pushed is in front, and a LIVE_QUOTE moves no record.
C3_ArrivalOrder ==
  /\ []C3_Ordered
  /\ [][IsLiveQuoteStep =>
          (SamePositions(trades, trades')
           /\ SamePositions(autoTrades, autoTrades'))]_vars

\* a record with an earlier timestamp than its successor has just been
\* pushed in front of each ledger, and a quote has been applied since
C3_Witness ==
  /\ Len(trades) >= 2 /\ Len(prints) >= 2 /\ Len(autoTrades) >= 2
  /\ trades[1].timestamp[2] < trades[2].timestamp[2]
  /\ autoTrades[1].timestamp[2] < autoTrades[2].timestamp[2]
  /\ prints[1].timestamp[2] < prints[2].timestamp[2]
  /\ \E i \in 1..Len(trades) : trades[i].currentPrice # trades[i].optionPrice

\* C4: right after a CALL or PUT is handled, the record in front of the
\* trade ledger has currentPrice = initialPrice = the message's optionPrice
\* and priceChange = priceChangePct = 0, also when the message itself
\* carries fields of those names with other values.
C4_TradeInitialised ==
  lastMsg.type \in {"CALL", "PUT"} =>
    /\ trades[1].arr = lastMsg.arr
    /\ trades[1].initialPrice = lastMsg.optionPrice
    /\ trades[1].currentPrice = lastMsg.optionPrice
    /\ trades[1].priceChange = <<"number", 0, 1>>
    /\ trades[1].priceChangePct = <<"number", 0, 1>>

\* the message just handled carried its own, different price fields
C4_Witness ==
  /\ lastMsg.type \in {"CALL", "PUT"}
  /\ trades[1].arr = lastMsg.arr
  /\ lastMsg.currentPrice[1] = "number"
  /\ lastMsg.currentPrice # lastMsg.optionPrice
  /\ lastMsg.initialPrice[1] = "number"
  /\ lastMsg.initialPrice # lastMsg.optionPrice
  /\ lastMsg.priceChange[1] = "number" /\ lastMsg.priceChange[2] # 0
  /\ lastMsg.priceChangePct[1] = "number" /\ lastMsg.priceChangePct[2] # 0

\* t has the price fields the quote's last price L gives it: currentPrice
\* L, priceChange L - initialPrice, and priceChangePct the fraction
\* 100 * priceChange / initialPrice for a non-zero initialPrice, else 0
\* (a missing initialPrice makes the difference NaN, a null one counts as 0)
PricedAt(t, L) ==
  LET ip == t.initialPrice
      pc == t.priceChange
      pct == t.priceChangePct
  IN  /\ t.currentPrice = L
      /\ ip[1] = "number" => (pc[1] = "number" /\ pc[3] = 1
                               /\ pc[2] = L[2] - ip[2])
      /\ ip[1] = "null" => pc = L
      /\ ip[1] = "undefined" => pc[1] = "NaN"
      /\ (ip[1] = "number" /\ ip[2] # 0) =>
            (pct[1] = "number" /\ pct[3] > 0
             /\ pct[2] * ip[2] = 100 * (L[2] - ip[2]) * pct[3])
      /\ ~(ip[1] = "number" /\ ip[2] # 0) => pct = <<"number", 0, 1>>
      \* entry 1.50, last 2.00: about 33.33 percent
      /\ (ip = <<"number", 150, 1>> /\ L = <<"number", 200, 1>>) =>
            (3333 * pct[3] <= 100 * pct[2] /\ 100 * pct[2] <= 3334 * pct[3])

\* C5: right after a LIVE_QUOTE for id k with last price L is handled,
\* every record with conid k in the trade ledger and in the auto-trade
\* ledger has currentPrice L, priceChange L - initialPrice and
\* priceChangePct (priceChange / initialPrice) * 100, or 0 when
\* initialPrice is zero or missing.
C5_Enriched ==
  (lastMsg.type = "LIVE_QUOTE" /\ lastMsg.last[1] = "number") =>
    /\ \A i \in 1..Len(trades) :
          trades[i].conid = lastMsg.conid => PricedAt(trades[i], lastMsg.last)
    /\ \A i \in 1..Len(autoTrades) :
          autoTrades[i].conid = lastMsg.conid =>
            PricedAt(autoTrades[i], lastMsg.last)

\* a quote with last 2.00 has just repriced trades entered at 1.50, at 0
\* and without an entry price, in both ledgers
C5_Witness ==
  /\ lastMsg.type = "LIVE_QUOTE"
  /\ lastMsg.last = <<"number", 200, 1>>
  /\ \E i \in 1..Len(trades) :
        /\ trades[i].conid = lastMsg.conid
        /\ trades[i].initialPrice = <<"number", 150, 1>>
        /\ trades[i].priceChangePct = <<"number", 100, 3>>
  /\ \E i \in 1..Len(trades) :
        trades[i].conid = lastMsg.conid /\ trades[i].initialPrice[1] = "undefined"
  /\ \E i \in 1..Len(autoTrades) :
        /\ autoTrades[i].conid = lastMsg.conid
        /\ autoTrades[i].initialPrice = <<"number", 150, 1>>
  /\ \E i \in 1..Len(autoTrades) :
        /\ autoTrades[i].conid = lastMsg.conid
        /\ autoTrades[i].initialPrice = <<"number", 0, 1>>

\* new is old with every record of another instrument than conid untouched
OthersUntouched(old, new, conid) ==
  /\ Len(new) = Len(old)
  /\ \A i \in 1..Len(old) :
        /\ new[i].arr = old[i].arr
        /\ old[i].conid # conid => new[i] = old[i]

\* C6: handling a LIVE_QUOTE for id A leaves every record whose conid is
\* not A identical in all fields, in both ledgers, and leaves the length
\* and order of both ledgers unchanged.
C6_EnrichmentScope ==
  [][IsLiveQuoteStep =>
       (/\ OthersUntouched(trades, trades', lastMsg'.conid)
        /\ OthersUntouched(autoTrades, autoTrades', lastMsg'.conid))]_vars

\* a quote for the string id "100" has repriced its records while records
\* of the number 100 and of 101 are in both ledgers
C6_Witness ==
  /\ lastMsg.type = "LIVE_QUOTE"
  /\ lastMsg.conid = <<"string", "100">>
  /\ lastMsg.last[1] = "number"
  /\ \E i \in 1..Len(trades) :
        trades[i].conid = lastMsg.conid /\ trades[i].currentPrice = lastMsg.last
  /\ \E i \in 1..Len(trades) : trades[i].conid = <<"number", "100">>
  /\ \E i \in 1..Len(trades) : trades[i].conid = <<"number", "101">>
  /\ \E i \in 1..Len(autoTrades) :
        autoTrades[i].conid = lastMsg.conid
        /\ autoTrades[i].currentPrice = lastMsg.last
  /\ \E i \in 1..Len(autoTrades) : autoTrades[i].conid = <<"number", "100">>

\* C7: handling the same LIVE_QUOTE a second time changes nothing: the
\* trade ledger, the auto-trade ledger and the option-quote overlay are
\* what they were after the first time, with or without a last price.
C7_Idempotent ==
  [][IsLiveQuoteStep =>
       (/\ MapTrades(trades', lastMsg') = trades'
        /\ MapAutoTrades(autoTrades', lastMsg') = autoTrades'
        /\ SetKey(quotes', lastMsg'.conid, lastMsg') = quotes')]_vars

\* a quote without a last price has just been handled, after an earlier
\* quote with one had moved the same instrument's records off their entry
\* price
C7_Witness ==
  /\ lastMsg.type = "LIVE_QUOTE"
  /\ lastMsg.last[1] = "undefined"
  /\ \E i \in 1..Len(trades) :
        /\ trades[i].conid = lastMsg.conid
        /\ trades[i].currentPrice[1] = "number"
        /\ trades[i].initialPrice[1] = "number"
        /\ trades[i].currentPrice # trades[i].initialPrice
  /\ \E i \in 1..Len(autoTrades) :
        /\ autoTrades[i].conid = lastMsg.conid
        /\ autoTrades[i].currentPrice # autoTrades[i].initialPrice
  /\ \E i \in 1..Len(trades) :
        /\ trades[i].conid = lastMsg.conid
        /\ trades[i].initialPrice[1] = "undefined"
        /\ trades[i].priceChange[1] = "NaN"

\* the option quote stored for exactly the id of t (same text, same type)
HasQuote(t) ==
  /\ Key(t.conid) \in DOMAIN quotes
  /\ quotes[Key(t.conid)].conid = t.conid
  /\ quotes[Key(t.conid)].last[1] = "number"

\* C8 as stated: every record of the trade ledger or auto-trade ledger
\* whose conid has an option quote with a last price in the overlay has
\* that last price as its currentPrice, trades that arrived after the
\* quote included.
C8_Original ==
  /\ \A i \in 1..Len(trades) :
        HasQuote(trades[i]) =>
          trades[i].currentPrice = quotes[Key(trades[i].conid)].last
  /\ \A i \in 1..Len(autoTrades) :
        HasQuote(autoTrades[i]) =>
          autoTrades[i].currentPrice = quotes[Key(autoTrades[i].conid)].last

\* C8 (amended): every record of the trade ledger or auto-trade ledger
\* for whose id an option quote with a last price is stored that arrived
\* after the record was pushed has that last price as its currentPrice.
C8_LaterQuoteConsistent ==
  /\ \A i \in 1..Len(trades) :
        (HasQuote(trades[i])
         /\ quotes[Key(trades[i].conid)].arr > trades[i].arr) =>
          trades[i].currentPrice = quotes[Key(trades[i].conid)].last
  /\ \A i \in 1..Len(autoTrades) :
        (HasQuote(autoTrades[i])
         /\ quotes[Key(autoTrades[i].conid)].arr > autoTrades[i].arr) =>
          autoTrades[i].currentPrice = quotes[Key(autoTrades[i].conid)].last

\* a quote with a last price is stored; a trade of its instrument arrived
\* after it with another entry price, and older trades of the instrument
\* are in both ledgers
C8_Witness ==
  /\ lastMsg.type \in {"CALL", "PUT"}
  /\ Truthy(lastMsg.isAutoTrade)
  /\ HasQuote(trades[1])
  /\ trades[1].currentPrice[1] = "number"
  /\ trades[1].currentPrice # quotes[Key(trades[1].conid)].last
  /\ \E i \in 2..Len(trades) :
        /\ trades[i].conid = trades[1].conid
        /\ trades[i].initialPrice[1] = "number"
        /\ trades[i].initialPrice # quotes[Key(trades[1].conid)].last
        /\ trades[i].currentPrice = quotes[Key(trades[1].conid)].last
  /\ \E i \in 2..Len(autoTrades) :
        /\ autoTrades[i].conid = trades[1].conid
        /\ autoTrades[i].initialPrice[1] = "number"
        /\ autoTrades[i].initialPrice # quotes[Key(trades[1].conid)].last
        /\ autoTrades[i].currentPrice = quotes[Key(trades[1].conid)].last

\* u is t in every field but currentPrice, priceChange and priceChangePct
SameButPrice(t, u) ==
  [u EXCEPT !.currentPrice = t.currentPrice,
            !.priceChange = t.priceChange,
            !.priceChangePct = t.priceChangePct] = t

\* new is old after a push onto a ledger of capacity cap: every old record
\* is one place further, unchanged, and only the record at place cap is gone
ShiftedByPush(old, new, cap) ==
  \A i \in 1..Len(old) :
    IF i + 1 <= Len(new) THEN new[i + 1] = old[i] ELSE i = cap

\* new is old after a LIVE_QUOTE for conid: the same records in the same
\* places, those of other instruments untouched and those of conid changed
\* in their three price fields at most
RepricedOnly(old, new, conid) ==
  /\ Len(new) = Len(old)
  /\ \A i \in 1..Len(old) :
        IF old[i].conid = conid
        THEN SameButPrice(old[i], new[i])
        ELSE new[i] = old[i]

\* C9: a record in the trade ledger or auto-trade ledger is changed only
\* by a LIVE_QUOTE of its own conid, and then only in currentPrice,
\* priceChange and priceChangePct; every other field keeps its pushed
\* value, and a record leaves its ledger only from the last place of a
\* full ledger when a record is pushed.
C9_OnlyQuotesMutate ==
  [][ /\ IsTradeStep =>
           /\ ShiftedByPush(trades, trades', 200)
           /\ IF Truthy(lastMsg'.isAutoTrade)
              THEN ShiftedByPush(autoTrades, autoTrades', 50)
              ELSE autoTrades' = autoTrades
      /\ IsLiveQuoteStep =>
           /\ RepricedOnly(trades, trades', lastMsg'.conid)
           /\ RepricedOnly(autoTrades, autoTrades', lastMsg'.conid)
      /\ (~IsTradeStep /\ ~IsLiveQuoteStep) =>
           (trades' = trades /\ autoTrades' = autoTrades) ]_vars

\* records of both ledgers have been repriced by a quote and still have
\* the entry price they were pushed with, and both ledgers have evicted
C9_Witness ==
  /\ lastMsg.type = "LIVE_QUOTE"
  /\ \E i \in 1..Len(trades) :
        /\ trades[i].conid = lastMsg.conid
        /\ trades[i].currentPrice # trades[i].optionPrice
        /\ trades[i].initialPrice = trades[i].optionPrice
        /\ trades[i].priceChange[2] # 0
  /\ \E i \in 1..Len(autoTrades) :
        /\ autoTrades[i].conid = lastMsg.conid
        /\ autoTrades[i].currentPrice # autoTrades[i].optionPrice
        /\ autoTrades[i].initialPrice = autoTrades[i].optionPrice
  /\ Len(trades) = 200 /\ trades[200].arr > 1
  /\ Len(autoTrades) = 50 /\ autoTrades[1].arr > WarmTrades

C10_AllFlagged ==
  \A i \in 1..Len(autoTrades) :
    autoTrades[i].isAutoTrade[1] = "boolean" /\ autoTrades[i].isAutoTrade[2] = 1

\* C10: a CALL or PUT with isAutoTrade set is put in front of both the
\* trade ledger and the auto-trade ledger with the same field values; one
\* without the flag leaves the auto-trade ledger unchanged; so every
\* record of the auto-trade ledger has isAutoTrade set.
C10_AutoMirror ==
  /\ []C10_AllFlagged
  /\ [][IsTradeStep =>
          IF lastMsg'.isAutoTrade = <<"boolean", 1, 1>>
          THEN /\ trades'[1].arr = lastMsg'.arr
               /\ autoTrades'[1] = trades'[1]
               /\ \A i \in 1..Len(autoTrades) :
                     i + 1 <= Len(autoTrades') =>
                       autoTrades'[i + 1] = autoTrades[i]
          ELSE autoTrades' = autoTrades]_vars

\* a flagged trade is in front of both ledgers, and the trade before it,
\* explicitly not flagged, is in the trade ledger alone
C10_Witness ==
  /\ lastMsg.type \in {"CALL", "PUT"}
  /\ lastMsg.isAutoTrade = <<"boolean", 1, 1>>
  /\ autoTrades[1] = trades[1]
  /\ trades[1].arr = nmsgs
  /\ trades[2].arr = nmsgs - 1
  /\ trades[2].isAutoTrade = <<"boolean", 0, 1>>
  /\ autoTrades[2].arr < nmsgs - 1
  /\ nmsgs > WarmTrades + WarmPrints

IsUlQuoteStep == IsStep /\ lastMsg'.type = "UL_LIVE_QUOTE"
IsStatsStep == IsStep /\ lastMsg'.type = "TRADING_STATS"
IsMappingStep == IsStep /\ lastMsg'.type = "CONID_MAPPING"

\* new is old with the entry of key set to value: no other entry changed,
\* none removed
EntryReplaced(old, new, key, value) ==
  /\ DOMAIN new = (DOMAIN old) \cup {key}
  /\ new[key] = value
  /\ \A k \in (DOMAIN old) \ {key} : new[k] = old[k]

\* C11: after a LIVE_QUOTE (UL_LIVE_QUOTE) for id k the option
\* (underlying) overlay entry of k is exactly the message, so that a quote
\* without last leaves an entry without last; the entries of the other
\* keys are unchanged, and no step ever removes an entry.
C11_OverlayReplaced ==
  [][ /\ IsLiveQuoteStep =>
           EntryReplaced(quotes, quotes', lastMsg'.conid[2], lastMsg')
      /\ IsUlQuoteStep =>
           EntryReplaced(ulQuotes, ulQuotes', lastMsg'.conid[2], lastMsg')
      /\ (DOMAIN quotes) \subseteq (DOMAIN quotes')
      /\ (DOMAIN ulQuotes) \subseteq (DOMAIN ulQuotes') ]_vars

\* a quote without a last price has replaced the entry of an instrument
\* whose trades an earlier quote with a last price had repriced
C11_Witness ==
  /\ lastMsg.type = "LIVE_QUOTE"
  /\ lastMsg.last[1] = "undefined"
  /\ quotes[lastMsg.conid[2]] = lastMsg
  /\ \E i \in 1..Len(trades) :
        /\ trades[i].conid = lastMsg.conid
        /\ trades[i].optionPrice = <<"number", 150, 1>>
        /\ trades[i].currentPrice = <<"number", 200, 1>>

\* C12: a UL_LIVE_QUOTE changes the underlying-quote overlay alone: the
\* three ledgers, the option-quote overlay, the identifier directory and
\* the stats snapshot stay as they are, whatever ids the trades have.
C12_UlQuoteFrame ==
  [][IsUlQuoteStep =>
       (/\ trades' = trades
        /\ autoTrades' = autoTrades
        /\ prints' = prints
        /\ quotes' = quotes
        /\ conidMapping' = conidMapping
        /\ stats' = stats)]_vars

\* underlying quotes are stored for an id that trades have as their conid
\* and for an id that trades have as their underlyingConid
C12_Witness ==
  /\ lastMsg.type = "UL_LIVE_QUOTE"
  /\ DOMAIN ulQuotes = {"100", "900"}
  /\ ulQuotes["100"].last[1] = "number"
  /\ \E i \in 1..Len(trades) : trades[i].conid = ulQuotes["100"].conid
  /\ \E i \in 1..Len(trades) :
        trades[i].underlyingConid = ulQuotes["900"].conid
  /\ \E i \in 1..Len(autoTrades) : autoTrades[i].conid = ulQuotes["100"].conid

\* C13: the stats snapshot is null until the first TRADING_STATS; each
\* TRADING_STATS makes it exactly that message's stats field, and no other
\* message changes it.
C13_StatsReplaced ==
  /\ [](nmsgs = 0 => stats = <<"null", 0, 1>>)
  /\ [][IF IsStatsStep THEN stats' = lastMsg'.stats
                       ELSE stats' = stats]_vars

\* a second TRADING_STATS, without the isSimulation field of the first,
\* has just been handled
C13_Witness ==
  /\ lastMsg.type = "TRADING_STATS"
  /\ nmsgs = WarmTrades + WarmPrints + 2
  /\ stats = <<"object", [totalTrades |-> 2]>>

\* the ids the view looks up: the conid and the underlyingConid of trades
LookupIds ==
  {<<"number", "100">>, <<"string", "100">>, <<"number", "101">>,
   <<"number", "900">>}

\* C14 as stated: looking up an id without a stored mapping returns
\* {symbol: "Unknown", instrumentClass: "OPTION"}.
C14_Original ==
  \A id \in LookupIds :
    id[2] \notin DOMAIN conidMapping =>
      getMapping(id) = [symbol |-> "Unknown", instrumentClass |-> "OPTION"]

\* C14 (amended): looking up an id without a stored mapping returns the
\* placeholder {symbol: "Unknown", type: "OPT"} and does not fail.
C14_Placeholder ==
  \A id \in LookupIds :
    id[2] \notin DOMAIN conidMapping =>
      getMapping(id) = [symbol |-> "Unknown", type |-> "OPT"]

\* a mapping is stored for one id and looked up, while other ids that
\* trades carry have none
C14_Witness ==
  /\ DOMAIN conidMapping = {"100"}
  /\ getMapping(<<"number", "100">>).symbol \in {"SPY", "QQQ"}
  /\ getMapping(<<"number", "101">>).symbol = "Unknown"
  /\ \E i \in 1..Len(trades) : trades[i].conid = <<"number", "101">>
  /\ getMapping(trades[1].underlyingConid).symbol = "Unknown"

\* C15: the ids of the identifier directory only grow; a CONID_MAPPING
\* makes the entry of its id the message's mapping and leaves the entries
\* of the other keys unchanged, so that the stored mapping is that of the
\* most recent CONID_MAPPING for the id; no other step changes the
\* directory.
C15_DirectoryGrows ==
  [][ /\ (DOMAIN conidMapping) \subseteq (DOMAIN conidMapping')
      /\ IF IsMappingStep
         THEN EntryReplaced(conidMapping, conidMapping', lastMsg'.conid[2],
                            lastMsg'.mapping)
         ELSE conidMapping' = conidMapping ]_vars

\* a second CONID_MAPPING for the same key has replaced the first
C15_Witness ==
  /\ lastMsg.type = "CONID_MAPPING"
  /\ nmsgs = WarmTrades + WarmPrints + 2
  /\ conidMapping["100"] = lastMsg.mapping
  /\ conidMapping["100"] = [symbol |-> "QQQ", right |-> "P"]
  /\ Len(prints) = 200 /\ prints[1].arr = WarmTrades + WarmPrints

\* the step handles a message object whose type the switch has no case for
IsOtherStep ==
  /\ IsStep
  /\ lastMsg'.type \notin {"CONID_MAPPING", "CALL", "PUT", "PRINT",
                           "LIVE_QUOTE", "UL_LIVE_QUOTE", "TRADING_STATS",
                           "#undecodable", "#null"}

\* C16: a message whose type is none of the seven known ones, or that has
\* no type, changes nothing (ledgers, overlays, directory, stats,
\* connected flag) and raises no error.
C16_UnknownIgnored ==
  [][IsOtherStep =>
       (/\ trades' = trades /\ prints' = prints /\ autoTrades' = autoTrades
        /\ quotes' = quotes /\ ulQuotes' = ulQuotes
        /\ conidMapping' = conidMapping /\ stats' = stats
        /\ connected' = connected
        /\ thrown' = thrown)]_vars

\* a message without a type has just been ignored with every part of the
\* state populated
C16_Witness ==
  /\ lastMsg.type = "(no type)"
  /\ thrown = <<>>
  /\ connected
  /\ Len(trades) = 200 /\ Len(prints) = 200 /\ Len(autoTrades) = 50
  /\ stats[1] = "object"

\* the normal effect of the message just handled is there
EffectOf(data) ==
  /\ data.type \in {"CALL", "PUT"} => trades'[1].arr = data.arr
  /\ data.type = "PRINT" => prints'[1] = data
  /\ data.type = "LIVE_QUOTE" => quotes'[data.conid[2]] = data
  /\ data.type = "UL_LIVE_QUOTE" => ulQuotes'[data.conid[2]] = data
  /\ data.type = "CONID_MAPPING" => conidMapping'[data.conid[2]] = data.mapping
  /\ data.type = "TRADING_STATS" => stats' = data.stats

\* C17: a payload that cannot be decoded leaves the ledgers, the overlays,
\* the directory and the stats unchanged, the connection is as it was (the
\* socket stays open), and a well-formed message handled after it on that
\* connection has its normal effect.
C17_UndecodableDropped ==
  [][ /\ (IsStep /\ lastMsg'.type = "#undecodable") =>
           (/\ trades' = trades /\ prints' = prints
            /\ autoTrades' = autoTrades
            /\ quotes' = quotes /\ ulQuotes' = ulQuotes
            /\ conidMapping' = conidMapping /\ stats' = stats
            /\ sockets' = sockets /\ connected' = connected
            /\ via' \in Open')
      /\ (IsStep /\ lastMsg.type = "#undecodable") =>
           (via' = via /\ EffectOf(lastMsg')) ]_vars

\* a CALL has been handled right after an undecodable payload, on the
\* same socket
C17_Witness ==
  /\ thrown = <<"SyntaxError">>
  /\ lastMsg.type = "CALL"
  /\ nmsgs = WarmTrades + WarmPrints + 2
  /\ trades[1].arr = nmsgs
  /\ trades[2].arr = WarmTrades
  /\ via \in Open

\* C18: no error escapes the message handler, whatever the payload (also
\* an undecodable one or one that decodes to null).
C18_NoErrorEscapes == thrown = <<>>

\* the step is the call of socket c's handler for the event ev
Fired(c, ev) ==
  /\ sockets[c].events # <<>>
  /\ Head(sockets[c].events) = ev
  /\ sockets'[c].events = Tail(sockets[c].events)

\* the reconnection the close of socket c stands for: its timer while it
\* is pending, the socket the timer created once it has fired
ReconnectsOf(c) ==
  Cardinality({t \in timers : t.by = c})
    + Cardinality({s \in DOMAIN sockets : sockets[s].by = c})

\* reconnection attempts that are pending (timers) or running (sockets a
\* timer created that are still connecting)
ReconnectsInFlight ==
  Cardinality(timers)
    + Cardinality({s \in DOMAIN sockets :
                     sockets[s].by # 0 /\ sockets[s].readyState = "CONNECTING"})

\* a close event schedules exactly one reconnection, ReconnectDelay later,
\* and marks the session disconnected
CloseSchedulesOne ==
  \A c \in DOMAIN sockets :
    Fired(c, "close") =>
      /\ connected' = FALSE
      /\ [by |-> c, delay |-> ReconnectDelay] \notin timers
      /\ timers' = timers \cup {[by |-> c, delay |-> ReconnectDelay]}

\* C19: a close event marks the session disconnected and produces exactly
\* one reconnection attempt, after the fixed delay of 3 seconds (never
\* none, never two), and no two reconnection attempts are pending or
\* running at the same time.
C19_OneReconnectAtATime ==
  [][ /\ CloseSchedulesOne
      /\ \A c \in DOMAIN sockets' : ReconnectsOf(c)' <= 1
      /\ ReconnectsInFlight' <= 1 ]_vars

\* C20 as stated: the error event marks the session disconnected and
\* schedules a reconnection after the fixed delay, as the close event does.
C20_Original ==
  [][\A c \in DOMAIN sockets :
       Fired(c, "error") =>
         /\ connected' = FALSE
         /\ [by |-> c, delay |-> ReconnectDelay] \in timers']_vars

\* C20 (amended): the error event marks the session disconnected and
\* schedules nothing; the close event of the same socket is the next
\* handler to run, and it is the one that schedules the reconnection after
\* the fixed delay.
C20_ErrorThenClose ==
  [][ /\ \A c \in DOMAIN sockets :
           Fired(c, "error") =>
             /\ connected' = FALSE
             /\ timers' = timers
             /\ sockets'[c].events = <<"close">>
      /\ (\E c \in DOMAIN sockets : sockets[c].events = <<"close">>) =>
           (\E c \in DOMAIN sockets : Fired(c, "close"))
      /\ CloseSchedulesOne ]_vars

\* the error handler of a socket that had been open has just run: the
\* session is disconnected, no reconnection is scheduled, close is due
C20_Witness ==
  /\ Len(sockets) = 1
  /\ sockets[1].opened
  /\ sockets[1].readyState = "CLOSED"
  /\ sockets[1].events = <<"close">>
  /\ ~connected
  /\ timers = {}

\* the connection of socket c is closed
Closed(c) == c \in DOMAIN sockets /\ sockets[c].readyState = "CLOSED"

\* a connection attempt has been made for the close of socket c
Retried(c) == \E s \in DOMAIN sockets : sockets[s].by = c

\* C21: there is no terminal state: after the connection of any socket is
\* closed (with or without an error, and whether or not the socket was
\* itself a retry), a new connection attempt is eventually made for it,
\* as long as the MaxSockets sockets of the model are not used up.
C21_AlwaysRetries ==
  \A c \in 1..(MaxSockets - 1) :
    Closed(c) ~> (Retried(c) \/ Len(sockets) = MaxSockets)

\* the retry of a failed retry: socket 2 was created for the close of
\* socket 1 and never opened, socket 3 for the close of socket 2
C21_Witness ==
  /\ Len(sockets) = 3
  /\ mounted
  /\ sockets[2].by = 1 /\ ~sockets[2].opened
  /\ sockets[3].by = 2
  /\ sockets[3].readyState = "CONNECTING"
  /\ timers = {}

\* the sockets that are connecting or open
Active == {c \in DOMAIN sockets :
             sockets[c].readyState \in {"CONNECTING", "OPEN"}}

\* C22: the teardown (effect cleanup) closes the active connection and
\* cancels every pending reconnection, a close of a socket that is already
\* closing or closed changes nothing, and while the session is torn down
\* no connection attempt is made, no reconnection is scheduled and no
\* connection opens.
C22_TeardownFinal ==
  [][ /\ (mounted /\ ~mounted') =>
           /\ timers' = {}
           /\ Active' = {}
           /\ \A c \in DOMAIN sockets :
                sockets[c].readyState \in {"CLOSING", "CLOSED"} =>
                  sockets'[c] = sockets[c]
      /\ (~mounted /\ ~mounted') =>
           /\ Len(sockets') = Len(sockets)
           /\ timers' \subseteq timers
           /\ Open' \subseteq Open ]_vars

\* C23: in every reachable state at most one connection is connecting or
\* open.
C23_OneActiveConnection == Cardinality(Active) <= 1

\* C24: a socket has sent exactly one subscription message from the
\* moment it opened, and none as long as it has not opened; every message
\* handled so far came in on a socket that had sent its subscription.
C24_OneHandshake ==
  /\ \A c \in DOMAIN sockets :
       sockets[c].sent = IF sockets[c].opened THEN 1 ELSE 0
  /\ via # 0 => sockets[via].sent = 1

\* a message came in on the first socket, which has subscribed once; the
\* second socket failed before it opened and has sent nothing
C24_Witness ==
  /\ Len(sockets) >= 2
  /\ via = 1 /\ nmsgs = 1
  /\ sockets[1].opened /\ sockets[1].sent = 1
  /\ sockets[2].readyState = "CLOSED"
  /\ ~sockets[2].opened /\ sockets[2].sent = 0

\* C25: a step that handles no message (open, close, error, timer, mount,
\* cleanup) leaves the three ledgers, both overlays, the directory and the
\* stats unchanged.
C25_ConnectionKeepsData ==
  [][nmsgs' = nmsgs =>
       (/\ trades' = trades /\ prints' = prints /\ autoTrades' = autoTrades
        /\ quotes' = quotes /\ ulQuotes' = ulQuotes
        /\ conidMapping' = conidMapping /\ stats' = stats)]_vars

\* the trade received on the first socket is still there after that
\* socket closed and the reconnection opened
C25_Witness ==
  /\ Len(sockets) = 2
  /\ sockets[1].readyState = "CLOSED"
  /\ sockets[2].by = 1 /\ sockets[2].readyState = "OPEN"
  /\ connected
  /\ via = 1 /\ nmsgs = 1
  /\ Len(trades) = 1 /\ trades[1].arr = 1
  /\ Len(autoTrades) = 1

\* what C26 gives for entry e, current c, size s and multiplier m
PnLOf(e, c, s, m) ==
  [dollarPnL |-> Mul(Mul(Sub(c, e), s), m),
   percentPnL |-> Mul(Div(Sub(c, e), e), Num(100))]

\* an absent or zero entry price
NoEntry(e) == Nullish(e) \/ e = Num(0)

\* a size of at least 1
AtLeastOne(s) == IsNum(s) /\ s[2] >= s[3]

\* C26 as stated: with entry e # 0, current c, size s >= 1 and multiplier
\* m the result is (c - e) * s * m and (c - e) / e * 100; an absent
\* multiplier counts as 100, an absent current price as the entry price;
\* an absent or zero entry gives 0 and 0.
C26_Original ==
  pnl.returned =>
    LET t == pnl.trade
    IN  IF NoEntry(t.optionPrice)
        THEN pnl.result = [dollarPnL |-> Num(0), percentPnL |-> Num(0)]
        ELSE AtLeastOne(t.size) =>
               pnl.result =
                 PnLOf(t.optionPrice,
                       IF Nullish(t.currentPrice) THEN t.optionPrice
                       ELSE t.currentPrice,
                       t.size,
                       IF Nullish(t.multiplier) THEN Num(100)
                       ELSE t.multiplier)

\* C26 (amended): the same, for a multiplier m that is not zero; a
\* multiplier of zero counts as 100 like an absent one.
C26_PnL ==
  pnl.returned =>
    LET t == pnl.trade
    IN  IF NoEntry(t.optionPrice)
        THEN pnl.result = [dollarPnL |-> Num(0), percentPnL |-> Num(0)]
        ELSE AtLeastOne(t.size) =>
               pnl.result =
                 PnLOf(t.optionPrice,
                       IF Nullish(t.currentPrice) THEN t.optionPrice
                       ELSE t.currentPrice,
                       t.size,
                       IF Nullish(t.multiplier) \/ t.multiplier = Num(0)
                       THEN Num(100)
                       ELSE t.multiplier)

\* entry 2.00, current 3.00, size 5, multiplier 100 has given 500 and 50
C26_Witness ==
  /\ pnl.returned
  /\ pnl.trade.optionPrice = Num(2)
  /\ pnl.trade.currentPrice = Num(3)
  /\ pnl.trade.size = Num(5)
  /\ pnl.trade.multiplier = Num(100)
  /\ pnl.result = [dollarPnL |-> Num(500), percentPnL |-> Num(50)]

\* record t has the price C27 gives it: the last price of the latest
\* LIVE_QUOTE of its conid that carried one, if that quote arrived after
\* the record, and its entry price otherwise
InArrivalOrder(t) ==
  IF t.conid \in DOMAIN priced /\ priced[t.conid].arr > t.arr
  THEN t.currentPrice = priced[t.conid].last
  ELSE t.currentPrice = t.optionPrice

Rendered == [h \in Hooks |-> Reduce(h, queue, committed[h])]

\* the state that handling every message in one step, in arrival order,
\* has given
OneByOne ==
  [trades |-> trades, prints |-> prints, autoTrades |-> autoTrades,
   quotes |-> quotes, ulQuotes |-> ulQuotes, conidMapping |-> conidMapping,
   stats |-> stats]

\* C28: however many messages are handled between two renders, the state
\* a render commits is the state that applying each message on its own,
\* in arrival order, gives; with nothing queued the committed state is
\* that state.
C28_RunToCompletion == Rendered = OneByOne

\* the updaters of three messages are queued and nothing is rendered yet:
\* two trades of one instrument and a quote that reprices both
C28_Witness ==
  /\ Len(queue) >= 6
  /\ committed.trades = <<>>
  /\ nmsgs = 3
  /\ lastMsg.type = "LIVE_QUOTE"
  /\ Len(trades) = 2 /\ Len(autoTrades) = 1
  /\ trades[1].currentPrice = Num(200)
  /\ trades[2].currentPrice = Num(200)
  /\ autoTrades[1].currentPrice = Num(200)

\* record t after a quote without a last price, as C29 has it: at its
\* prior currentPrice, or at its entry price if it had none, with the
\* change recomputed against initialPrice
HeldAt(t, u) ==
  LET p == Coalesce(t.currentPrice, t.optionPrice)
  IN  /\ u.currentPrice = p
      /\ u.priceChange = Sub(p, t.initialPrice)
      /\ u.priceChangePct =
           (IF Truthy(t.initialPrice)
            THEN Mul(Div(Sub(p, t.initialPrice), t.initialPrice), Num(100))
            ELSE Num(0))

\* the step handles a LIVE_QUOTE without a last price
IsBlankQuoteStep == IsLiveQuoteStep /\ Nullish(lastMsg'.last)

\* C29: a LIVE_QUOTE without a last price (null or absent) leaves every
\* record of its conid at its prior currentPrice (at its entry price if it
\* had none) with priceChange and priceChangePct recomputed against
\* initialPrice, so that the record's price fields are unchanged, and
\* still replaces the overlay entry of the id.
C29_BlankQuoteKeepsPrice ==
  [][IsBlankQuoteStep =>
       /\ quotes'[Key(lastMsg'.conid)] = lastMsg'
       /\ Len(trades') = Len(trades)
       /\ Len(autoTrades') = Len(autoTrades)
       /\ \A i \in 1..Len(trades) :
            trades[i].conid = lastMsg'.conid =>
              (HeldAt(trades[i], trades'[i]) /\ trades'[i] = trades[i])
       /\ \A i \in 1..Len(autoTrades) :
            autoTrades[i].conid = lastMsg'.conid =>
              (HeldAt(autoTrades[i], autoTrades'[i])
               /\ autoTrades'[i] = autoTrades[i])]_vars

\* C30: only a PRINT changes the print ledger, and it does so by putting
\* its record in front, every older print one place further and unchanged,
\* the print at the last place of a full ledger dropped; every other step
\* (any other message, any connection event) leaves the ledger as it is.
C30_PrintsImmutable ==
  [][IF IsPrintStep
     THEN /\ prints'[1] = lastMsg'
          /\ ShiftedByPush(prints, prints', 200)
     ELSE prints' = prints]_vars

\* an option quote with a last price has been handled for an instrument
\* that prints of the full ledger belong to, trades of it were repriced
C30_Witness ==
  /\ lastMsg.type = "LIVE_QUOTE"
  /\ lastMsg.last[1] = "number"
  /\ Len(prints) = 200
  /\ \E i \in 1..Len(prints) :
        /\ prints[i].conid = lastMsg.conid
        /\ prints[i].tradePrice # lastMsg.last
  /\ \E i \in 1..Len(trades) :
        /\ trades[i].conid = lastMsg.conid
        /\ trades[i].currentPrice = lastMsg.last
        /\ trades[i].optionPrice # lastMsg.last

\* the sockets that are closing: close() was called, the close event is
\* still to come
Closing == {c \in DOMAIN sockets : sockets[c].readyState = "CLOSING"}

\* C31: whenever no handler call is due, the connected flag is true if a
\* connection is open and false if no connection is open or on its way
\* to being closed.
C31_ConnectedIffOpen ==
  Idle =>
    /\ Open # {} => connected
    /\ connected => (Open \cup Closing) # {}

\* records t and u have the same price fields
SamePrices(t, u) ==
  /\ t.currentPrice = u.currentPrice
  /\ t.priceChange = u.priceChange
  /\ t.priceChangePct = u.priceChangePct

\* C32: a record of the trade ledger and a record of the auto-trade ledger
\* that stem from the same CALL/PUT event have equal currentPrice,
\* priceChange and priceChangePct.
C32_MirrorPrices ==
  \A i \in 1..Len(trades) :
    \A j \in 1..Len(autoTrades) :
      trades[i].arr = autoTrades[j].arr =>
        SamePrices(trades[i], autoTrades[j])

\* an older auto-flagged trade is in both ledgers and a quote has moved
\* both copies off the entry price
C32_Witness ==
  /\ lastMsg.type = "LIVE_QUOTE"
  /\ \E i \in 2..Len(trades) :
       \E j \in 2..Len(autoTrades) :
         /\ trades[i].arr = autoTrades[j].arr
         /\ autoTrades[j].currentPrice = lastMsg.last
         /\ autoTrades[j].priceChange[1] = "number"
         /\ autoTrades[j].priceChange # Num(0)
         /\ autoTrades[j].priceChangePct # Num(0)
         /\ SamePrices(trades[i], autoTrades[j])

\* the arrival indices of the records of a ledger, in the ledger's order
Arrivals(ledger) == [i \in 1..Len(ledger) |-> ledger[i].arr]

\* C33: the auto-trade ledger holds exactly the most recent min(50, n) of
\* the n auto-flagged CALL/PUT events delivered, the newest first,
\* whatever the trade ledger still holds, and every record of it is at the
\* last price of the latest quote for its id that arrived after it.
C33_AutoLedgerOutlivesTwin ==
  /\ Arrivals(autoTrades) =
       SubSeq(flagged, 1, Min(AutoTradesCap, Len(flagged)))
  /\ \A j \in 1..Len(autoTrades) : InArrivalOrder(autoTrades[j])

\* more than 50 auto-flagged trades were followed by 200 later trades: the
\* auto-trade ledger is full, the trade ledger holds none of its records,
\* and a quote has just repriced records of the auto-trade ledger
C33_Witness ==
  /\ Len(flagged) > AutoTradesCap
  /\ Len(autoTrades) = AutoTradesCap
  /\ Len(trades) = TradesCap
  /\ \A i \in 1..Len(trades) :
       \A j \in 1..Len(autoTrades) : trades[i].arr # autoTrades[j].arr
  /\ lastMsg.type = "LIVE_QUOTE"
  /\ lastMsg.last = Num(200)
  /\ \E j \in 1..Len(autoTrades) :
       /\ autoTrades[j].conid = lastMsg.conid
       /\ autoTrades[j].optionPrice # lastMsg.last
       /\ autoTrades[j].currentPrice = lastMsg.last
       /\ autoTrades[j].priceChange # Num(0)

====
